---------------------------- MODULE Spec2Model ----------------------------
(***************************************************************************)
(* A model of backend/utils/ai_recommender.py: the password validator, the *)
(* random password generator and the two entry points that consult the     *)
(* external text-generation service and fall back to local behaviour.      *)
(*                                                                         *)
(* A Python str is a sequence of characters; a character is a one-letter   *)
(* TLA+ string, and a character outside ASCII is written as its code point *)
(* ("U+00C9" is LATIN CAPITAL LETTER E WITH ACUTE).  A call's outcome is a *)
(* record: [kind |-> "return", value |-> v] or [kind |-> "raise",          *)
(* exc |-> name].                                                          *)
(***************************************************************************)
EXTENDS Integers, Sequences, FiniteSets, TLC

VARIABLES
    api_key,   \* openai.api_key, read from the environment at import
    op,        \* the function the caller invokes
    args,      \* its arguments
    service,   \* what openai.ChatCompletion.create does when it is called
    pc,        \* "start": the call is about to run; "done": it has ended
    frame,     \* generate_strong_password's locals when it last left its body
    ret        \* the outcome the caller observes

vars == <<api_key, op, args, service, pc, frame, ret>>

---------------------------------------------------------------------------
(* Bounds of the model.                                                    *)

\* Longest candidate password drawn letter by letter from PwChars.
MaxPwLen == 2
\* Largest min_length drawn besides the default.
MaxMinLength == 2
\* How many elements of a population random.choice draws in the model.
MaxChoice == 2
\* The fillers drawn from the pool: 0..MaxFill.
MaxFill == 1
\* The rotations random.shuffle produces in the model.
MaxShuffle == 1
\* Largest count of suggestions asked for.
MaxCount == 2
\* Most lines in a response text, and the largest stride through the pool
\* of lines a text is built from.
MaxSuggestionLines == 3
MaxRecommendationLines == 9
MaxLineStride == 2

---------------------------------------------------------------------------
(* Characters and the str methods the module uses.                         *)

ascii_lowercase ==
    <<"a","b","c","d","e","f","g","h","i","j","k","l","m",
      "n","o","p","q","r","s","t","u","v","w","x","y","z">>

ascii_uppercase ==
    <<"A","B","C","D","E","F","G","H","I","J","K","L","M",
      "N","O","P","Q","R","S","T","U","V","W","X","Y","Z">>

ascii_letters == ascii_lowercase \o ascii_uppercase

digits == <<"0","1","2","3","4","5","6","7","8","9">>

\* The literal '!@#$%^&*()_+-=[]{}|;:,.<>?'
special_chars ==
    <<"!","@","#","$","%","^","&","*","(",")","_","+","-","=",
      "[","]","{","}","|",";",":",",",".","<",">","?">>

Range(s) == {s[i] : i \in DOMAIN s}

\* The cased letters and digits outside ASCII that the model draws: capital
\* E acute, small e acute, superscript two.  (It also draws the euro sign,
\* "U+20AC", and the bullet, "U+2022", which are in no class.)
UpperNonAscii == {"U+00C9"}
LowerNonAscii == {"U+00E9"}
DigitNonAscii == {"U+00B2"}

\* str.isupper, str.islower, str.isdigit of one character: Unicode-aware.
isupper(c) == c \in Range(ascii_uppercase) \cup UpperNonAscii
islower(c) == c \in Range(ascii_lowercase) \cup LowerNonAscii
isdigit(c) == c \in Range(digits) \cup DigitNonAscii
isspace(c) == c \in {" ", "\t", "\n", "\r"}

\* any(pred(c) for c in password)
any_isupper(password) == \E i \in DOMAIN password : isupper(password[i])
any_islower(password) == \E i \in DOMAIN password : islower(password[i])
any_isdigit(password) == \E i \in DOMAIN password : isdigit(password[i])
\* A variant that takes every non-alphanumeric character for a special one.
any_in_special_nonalnum(password) ==
    \E i \in DOMAIN password :
        password[i] \notin Range(ascii_letters) \cup Range(digits)
any_in_special(password) ==
    \E i \in DOMAIN password : password[i] \in Range(special_chars)

---------------------------------------------------------------------------
(* validate_password_meets_security_rules                                  *)

MsgLength(min_length) ==
    "Password must be at least " \o ToString(min_length) \o " characters"
MsgUpper == "Password must contain at least one uppercase letter"
MsgLower == "Password must contain at least one lowercase letter"
MsgDigit == "Password must contain at least one number"
MsgSpecial == "Password must contain at least one special character"

DefaultMinLength == 12

\* A variant that stops at the first failed check.
validate_short_circuit(password, min_length, require_uppercase, require_lowercase, require_numbers, require_special) ==
    LET errors ==
            IF Len(password) < min_length THEN <<MsgLength(min_length)>>
            ELSE IF require_uppercase /\ ~any_isupper(password) THEN <<MsgUpper>>
            ELSE IF require_lowercase /\ ~any_islower(password) THEN <<MsgLower>>
            ELSE IF require_numbers /\ ~any_isdigit(password) THEN <<MsgDigit>>
            ELSE IF require_special /\ ~any_in_special(password) THEN <<MsgSpecial>>
            ELSE <<>>
    IN  <<Len(errors) = 0, errors>>

\* A variant whose length check is off by one (<= for <).
validate_length_off_by_one(password, min_length, require_uppercase, require_lowercase, require_numbers, require_special) ==
    LET e0 == <<>>
        e1 == IF Len(password) <= min_length
              THEN Append(e0, MsgLength(min_length)) ELSE e0
        e2 == IF require_uppercase /\ ~any_isupper(password)
              THEN Append(e1, MsgUpper) ELSE e1
        e3 == IF require_lowercase /\ ~any_islower(password)
              THEN Append(e2, MsgLower) ELSE e2
        e4 == IF require_numbers /\ ~any_isdigit(password)
              THEN Append(e3, MsgDigit) ELSE e3
        e5 == IF require_special /\ ~any_in_special(password)
              THEN Append(e4, MsgSpecial) ELSE e4
    IN  <<Len(e5) = 0, e5>>

\* The body, lines 107-124: errors grows by one message per failed check,
\* every check is evaluated, and the result is the pair (is_valid, errors).
validate_body(password, min_length, require_uppercase, require_lowercase, require_numbers, require_special) ==
    LET e0 == <<>>
        e1 == IF Len(password) < min_length
              THEN Append(e0, MsgLength(min_length)) ELSE e0
        e2 == IF require_uppercase /\ ~any_isupper(password)
              THEN Append(e1, MsgUpper) ELSE e1
        e3 == IF require_lowercase /\ ~any_islower(password)
              THEN Append(e2, MsgLower) ELSE e2
        e4 == IF require_numbers /\ ~any_isdigit(password)
              THEN Append(e3, MsgDigit) ELSE e3
        e5 == IF require_special /\ ~any_in_special(password)
              THEN Append(e4, MsgSpecial) ELSE e4
    IN  <<Len(e5) = 0, e5>>

\* The signature, line 92: the parameter names in order.
ValidatorParams ==
    <<"password", "min_length", "require_uppercase", "require_lowercase",
      "require_numbers", "require_special">>

Returns(v) == [kind |-> "return", value |-> v]
Raises(e) == [kind |-> "raise", exc |-> e]

\* A call validate_password_meets_security_rules(*positional, **keywords):
\* Python binds the arguments to the parameters first and raises TypeError
\* on a keyword that names no parameter (or on a missing password, or a
\* parameter given twice); only then does the body run.
validate_password_meets_security_rules(positional, keywords) ==
    LET given(i) == i <= Len(positional)
        named(i) == ValidatorParams[i] \in DOMAIN keywords
        arg(i, default) ==
            IF given(i) THEN positional[i]
            ELSE IF named(i) THEN keywords[ValidatorParams[i]]
            ELSE default
    IN  IF \/ ~(DOMAIN keywords \subseteq Range(ValidatorParams))
           \/ Len(positional) > Len(ValidatorParams)
           \/ \E i \in DOMAIN ValidatorParams : given(i) /\ named(i)
           \/ ~(given(1) \/ named(1))
        THEN Raises("TypeError")
        ELSE Returns(validate_body(arg(1, <<>>), arg(2, DefaultMinLength),
                                   arg(3, TRUE), arg(4, TRUE),
                                   arg(5, TRUE), arg(6, TRUE)))

---------------------------------------------------------------------------
(* The str methods the response handling uses.                             *)

MinOf(S) == CHOOSE m \in S : \A x \in S : m <= x
MaxOf(S) == CHOOSE m \in S : \A x \in S : x <= m

\* s.strip(): s without its leading and trailing whitespace.
strip(s) ==
    LET keep == {i \in DOMAIN s : ~isspace(s[i])}
    IN  IF keep = {} THEN <<>> ELSE SubSeq(s, MinOf(keep), MaxOf(keep))

\* s.startswith(c) for a one-character c.
startswith(s, c) == Len(s) >= 1 /\ s[1] = c

\* s.split(sep): the list of the pieces between the separators.
RECURSIVE split(_, _)
split(s, sep) ==
    LET at == {i \in DOMAIN s : s[i] = sep}
    IN  IF at = {} THEN <<s>>
        ELSE <<SubSeq(s, 1, MinOf(at) - 1)>>
                 \o split(SubSeq(s, MinOf(at) + 1, Len(s)), sep)

\* s.split(sep, 1): at most one split, at the first separator.
split_once(s, sep) ==
    LET at == {i \in DOMAIN s : s[i] = sep}
    IN  IF at = {} THEN <<s>>
        ELSE <<SubSeq(s, 1, MinOf(at) - 1), SubSeq(s, MinOf(at) + 1, Len(s))>>

\* s[:n]
prefix(s, n) == SubSeq(s, 1, IF Len(s) < n THEN Len(s) ELSE n)

\* "Remove numbering" of a non-empty line:
\*   if line[0].isdigit() and '.' in line[:3]: line = line.split('.', 1)[1].strip()
remove_numbering(line) ==
    IF isdigit(line[1]) /\ "." \in Range(prefix(line, 3))
    THEN strip(split_once(line, ".")[2])
    ELSE line

\* "Remove bullet points":
\*   if line.startswith('-') or line.startswith(bullet): line = line[1:].strip()
remove_bullet(line) ==
    IF startswith(line, "-") \/ startswith(line, "U+2022")
    THEN strip(SubSeq(line, 2, Len(line)))
    ELSE line

---------------------------------------------------------------------------
(* get_default_recommendations, parse_recommendations,                     *)
(* generate_recommendations                                                *)

get_default_recommendations ==
    << "Increase password length to 16+ characters",
       "Mix uppercase, lowercase, numbers, and special characters",
       "Avoid common words or predictable sequences",
       "Avoid using personal information (names, birthdates)",
       "Use a passphrase with random words for better memorability",
       "Avoid keyboard patterns (qwerty, asdfgh, etc.)",
       "Consider using a password manager to generate and store strong passwords" >>

RecommendationLimit == 7

\* A variant that keeps the lines starting with '#'.
parse_line_keep_headings(recommendations, raw) ==
    LET line == strip(raw)
    IN  IF line # <<>>
        THEN LET cleaned == remove_bullet(remove_numbering(line))
             IN  IF cleaned # <<>> THEN Append(recommendations, cleaned)
                 ELSE recommendations
        ELSE recommendations

\* One turn of the loop of lines 77-88: the list after `raw` is handled.
parse_line(recommendations, raw) ==
    LET line == strip(raw)
    IN  IF line # <<>> /\ ~startswith(line, "#")
        THEN LET cleaned == remove_bullet(remove_numbering(line))
             IN  IF cleaned # <<>> THEN Append(recommendations, cleaned)
                 ELSE recommendations
        ELSE recommendations

RECURSIVE parse_loop(_, _)
parse_loop(lines, recommendations) ==
    IF lines = <<>> THEN recommendations
    ELSE parse_loop(Tail(lines), parse_line(recommendations, Head(lines)))

\* recommendations[:7]
parse_recommendations(recommendations_text) ==
    prefix(parse_loop(split(recommendations_text, "\n"), <<>>),
           RecommendationLimit)

\* The exceptions the model raises; every one of them derives from
\* Exception, which is what `except Exception` catches.
ServiceErrors == {"Timeout", "APIError", "AuthenticationError"}
ExceptionClasses ==
    ServiceErrors \cup {"TypeError", "IndexError", "AttributeError"}

\* response = openai.ChatCompletion.create(...);
\* response.choices[0].message.content: the call raises what the service
\* raises, choices[0] raises IndexError on an empty list.
response_content(svc) ==
    IF svc.kind = "raise" THEN Raises(svc.exc)
    ELSE IF svc.choices = <<>> THEN Raises("IndexError")
    ELSE Returns(svc.choices[1])

\* Lines 25-46, the body of the try: parse_recommendations on a content of
\* None raises AttributeError (None has no split).
recommendations_try(svc) ==
    LET content == response_content(svc)
    IN  IF content.kind = "raise" THEN content
        ELSE IF content.value.is_none THEN Raises("AttributeError")
        ELSE Returns(parse_recommendations(content.value.text))

\* A variant without the try/except: what the body raises reaches the caller.
generate_recommendations_no_except(key, password, svc) ==
    IF key = "" THEN Returns(get_default_recommendations)
    ELSE recommendations_try(svc)

generate_recommendations(key, password, svc) ==
    IF key = "" THEN Returns(get_default_recommendations)
    ELSE LET tried == recommendations_try(svc)
         IN  IF tried.kind = "raise" /\ tried.exc \in ExceptionClasses
             THEN Returns(get_default_recommendations)
             ELSE tried

---------------------------------------------------------------------------
(* generate_strong_password                                                *)

MinGenLength == 12
MaxGenLength == 32

\* Lines 139-142.
clamp(length) ==
    IF length < MinGenLength THEN MinGenLength
    ELSE IF length > MaxGenLength THEN MaxGenLength
    ELSE length

\* random.choice(population): any element may be drawn.  The model draws
\* MaxChoice of them, spread evenly over the population.
random_choice(population) ==
    {population[1 + ((j * Len(population)) \div MaxChoice)] : j \in 0..(MaxChoice - 1)}

\* Lines 145-158: one character of every mandatory class, in this order.
seed_chars(use_special, use_numbers) ==
    { <<u, l>> \o d \o s :
        u \in random_choice(ascii_uppercase),
        l \in random_choice(ascii_lowercase),
        d \in IF use_numbers THEN {<<c>> : c \in random_choice(digits)} ELSE {<<>>},
        s \in IF use_special THEN {<<c>> : c \in random_choice(special_chars)}
              ELSE {<<>>} }

\* Lines 161-165.
char_pool(use_special, use_numbers) ==
    ascii_letters \o (IF use_numbers THEN digits ELSE <<>>)
                  \o (IF use_special THEN special_chars ELSE <<>>)

\* Line 169: n independent draws from the pool.  The model takes the draws
\* that walk the pool from a start with a stride (the first repeats one
\* character), which random.choice can all produce.
fill_chars(pool, n) ==
    { [i \in 1..n |-> pool[1 + ((11 * k + 7 * k * (i - 1)) % Len(pool))]] :
        k \in 0..MaxFill }

\* random.shuffle(password_list): any permutation may result.  The model
\* takes the rotations by up to MaxShuffle places.
rotate(s, k) == [i \in 1..Len(s) |-> s[1 + ((i - 1 + k) % Len(s))]]
random_shuffle(s) == {rotate(s, k) : k \in 0..MaxShuffle}

\* Lines 145-174: the strings one construction pass can build for an
\* already clamped length.
construct_password(length, use_special, use_numbers) ==
    UNION { UNION { random_shuffle(chars_needed \o filler) :
                      filler \in fill_chars(char_pool(use_special, use_numbers),
                                            length - Len(chars_needed)) } :
              chars_needed \in seed_chars(use_special, use_numbers) }

\* Line 177, the self-check as it is written:
\*   validate_password_meets_security_rules(password,
\*       use_special=use_special, require_numbers=use_numbers)
self_check(password, use_special, use_numbers) ==
    validate_password_meets_security_rules(
        <<password>>,
        [use_special |-> use_special, require_numbers |-> use_numbers])

\* Lines 177-182 for one constructed password: the call's exception leaves
\* the function (nothing catches it), a failed check asks for another pass
\* (the recursive call of line 180), a passed one returns the password.
finish_pass(password, use_special, use_numbers) ==
    LET check == self_check(password, use_special, use_numbers)
    IN  IF check.kind = "raise" THEN check
        ELSE IF ~check.value[1] THEN [kind |-> "retry"]
        ELSE Returns(password)

\* The outcomes of a whole call generate_strong_password(length, ...): those
\* of the passes that end it (a pass that retries ends as a later pass does).
generate_strong_password(length, use_special, use_numbers) ==
    { o \in { finish_pass(password, use_special, use_numbers) :
                password \in construct_password(clamp(length), use_special,
                                                use_numbers) } :
        o.kind # "retry" }

---------------------------------------------------------------------------
(* generate_ai_password_suggestions                                        *)

SuggestionMinLine == 12

\* [generate_strong_password(length) for _ in range(count)]: the first call
\* that raises ends the comprehension with its exception.
first_raise(outs) == outs[MinOf({i \in DOMAIN outs : outs[i].kind = "raise"})]
collect(outs) ==
    IF \E i \in DOMAIN outs : outs[i].kind = "raise" THEN first_raise(outs)
    ELSE Returns([i \in DOMAIN outs |-> outs[i].value])

generated_list(n, generated) ==
    { collect(outs) : outs \in [1..n -> generated] }

\* A variant without the length + 2 cap.
accept_line_no_cap(passwords, raw, length) ==
    LET line == strip(raw)
    IN  IF line # <<>> /\ Len(line) >= SuggestionMinLine
        THEN LET cleaned == remove_bullet(remove_numbering(line))
                 check == validate_password_meets_security_rules(
                              <<cleaned>>, [min_length |-> length - 1])
             IN  IF check.value[1]
                 THEN Append(passwords, cleaned) ELSE passwords
        ELSE passwords

\* One turn of the loop of lines 223-235.
accept_line(passwords, raw, length) ==
    LET line == strip(raw)
    IN  IF line # <<>> /\ Len(line) >= SuggestionMinLine
        THEN LET cleaned == remove_bullet(remove_numbering(line))
                 check == validate_password_meets_security_rules(
                              <<cleaned>>, [min_length |-> length - 1])
             IN  IF check.value[1] /\ Len(cleaned) <= length + 2
                 THEN Append(passwords, cleaned) ELSE passwords
        ELSE passwords

RECURSIVE accept_loop(_, _, _)
accept_loop(lines, passwords, length) ==
    IF lines = <<>> THEN passwords
    ELSE accept_loop(Tail(lines), accept_line(passwords, Head(lines), length),
                     length)

\* Lines 200-241, the body of the try; `generated` is what a call
\* generate_strong_password(length) can end with.
suggestions_try(count, length, svc, generated) ==
    LET content == response_content(svc)
    IN  IF content.kind = "raise" THEN {content}
        ELSE IF content.value.is_none THEN {Raises("AttributeError")}
        ELSE LET passwords ==
                     accept_loop(split(strip(content.value.text), "\n"), <<>>,
                                 length)
             IN  IF Len(passwords) >= count
                 THEN {Returns(prefix(passwords, count))}
                 ELSE { IF more.kind = "raise" THEN more
                        ELSE Returns(passwords \o more.value) :
                          more \in generated_list(count - Len(passwords), generated) }

generate_ai_password_suggestions(key, count, length, svc) ==
    LET generated == generate_strong_password(length, TRUE, TRUE)
    IN  IF key = "" THEN generated_list(count, generated)
        ELSE UNION { IF tried.kind = "raise" /\ tried.exc \in ExceptionClasses
                     THEN generated_list(count, generated)
                     ELSE {tried} :
                       tried \in suggestions_try(count, length, svc, generated) }

---------------------------------------------------------------------------
(* Inputs.                                                                 *)

\* The letters candidate passwords are drawn from: one of each ASCII class,
\* a space, and one non-ASCII upper-case, lower-case, digit and symbol.
PwChars == {"A", "a", "1", "!", " ", "U+00C9", "U+00E9", "U+00B2", "U+20AC"}

SamplePasswords ==
    { <<"a","b","c">>,
      <<"A","a","1","!">>,
      <<"A","b","c","d","e","f","g","h","1","2","3","!">>,
      <<"A","b","c","d","e","f","g","h","1","2","3","4">>,
      <<"U+00C9","b","c","d","e","f","g","h","1","2","3","!">>,
      <<"A","U+00E9","C","D","E","F","G","H","1","2","3","!">>,
      <<"A","b","c","d","e","f","g","h","i","j","U+00B2","!">>,
      <<"A","b","c","d","e","f","g","h","1","2","3","U+20AC">>,
      <<"A","b","c","d","e","f","g","h","1","2","3"," ">> }

Passwords ==
    UNION {[1..k -> PwChars] : k \in 0..MaxPwLen} \cup SamplePasswords

MinLengths == 1..MaxMinLength \cup {DefaultMinLength}

ValidateArgs ==
    [password : Passwords, min_length : MinLengths,
     require_uppercase : BOOLEAN, require_lowercase : BOOLEAN,
     require_numbers : BOOLEAN, require_special : BOOLEAN]

NoFrame == [passes |-> 0]
NoService == [kind |-> "unused"]
NoRet == [kind |-> "none"]

InitValidate ==
    /\ op = "validate_password_meets_security_rules"
    /\ args \in ValidateArgs
    /\ service = NoService
    /\ api_key = ""

\* Requested lengths below, at and above both ends of the clamp.
GenLengths == {1, 11, 12, 13, 16, 31, 32, 33, 100}

InitGenerate ==
    /\ op = "generate_strong_password"
    /\ args \in [length : GenLengths, use_special : BOOLEAN, use_numbers : BOOLEAN]
    /\ service = NoService
    /\ api_key = ""

cycle(cls, n) == [i \in 1..n |-> cls[1 + ((i - 1) % Len(cls))]]

RECURSIVE join(_)
join(lines) ==
    IF lines = <<>> THEN <<>>
    ELSE IF Len(lines) = 1 THEN lines[1]
    ELSE lines[1] \o <<"\n">> \o join(Tail(lines))

\* A response text of n lines taken from a pool, from a start with a stride.
texts(pool, max_lines) ==
    { join([i \in 1..n |-> pool[1 + ((a + b * (i - 1)) % Len(pool))]]) :
        n \in 0..max_lines, a \in 0..(Len(pool) - 1), b \in 0..MaxLineStride }

\* What the service can do when it is called (without a key it is not):
\* raise, answer without a choice, answer with a content of None, answer
\* with a text.
services(pool, max_lines) ==
    {[kind |-> "raise", exc |-> e] : e \in ServiceErrors}
      \cup {[kind |-> "response", choices |-> <<>>]}
      \cup {[kind |-> "response", choices |-> <<[is_none |-> TRUE, text |-> <<>>]>>]}
      \cup {[kind |-> "response", choices |-> <<[is_none |-> FALSE, text |-> t]>>] :
              t \in texts(pool, max_lines)}

ApiKeys == {"", "sk-test"}

\* Lines a password service may answer with: all four classes at lengths
\* around 8, 12 and 16, numbered, bulleted and padded ones, ones that lack
\* a class or hold a symbol outside the special set, and chatter.
SuggestionLines ==
    << cycle(<<"A","b","3","!">>, 16),
       cycle(<<"b","A","!","3">>, 15),
       cycle(<<"3","!","A","b">>, 18),
       cycle(<<"A","b","3","!">>, 19),
       cycle(<<"!","3","b","A">>, 14),
       cycle(<<"A","b","3","?">>, 12),
       cycle(<<"A","b","3","!">>, 11),
       <<"1", ".", " ">> \o cycle(<<"Q","r","5","#">>, 16),
       <<"-", " ">> \o cycle(<<"W","x","7","$">>, 17),
       <<"U+2022">> \o cycle(<<"E","f","9","%">>, 11),
       <<"1", ".">> \o cycle(<<"T","g","2","&">>, 10),
       <<"2", ".", " ", "-", " ">> \o cycle(<<"Y","h","4","*">>, 7),
       cycle(<<"A","b","3">>, 16),
       cycle(<<"a","b","3","!">>, 16),
       cycle(<<"A","B","3","!">>, 16),
       cycle(<<"A","b","c","!">>, 16),
       cycle(<<"A","b","3","U+20AC">>, 16),
       cycle(<<"A","b","3"," ">>, 15) \o <<"x">>,
       cycle(<<"U+00C9","b","3","!">>, 16),
       <<" ", " ">> \o cycle(<<"Z","k","6","+">>, 16) \o <<" ", "\r">>,
       <<>>,
       <<"H","e","r","e",":">> >>

SuggestLengths == {8, 12, 16}

InitSuggestions ==
    /\ op = "generate_ai_password_suggestions"
    /\ args \in [count : 0..MaxCount, length : SuggestLengths]
    /\ api_key \in ApiKeys
    /\ service \in IF api_key = "" THEN {NoService}
                   ELSE services(SuggestionLines, MaxSuggestionLines)

\* Lines a recommendation answer may hold: numbered, bulleted, headed,
\* blank, and ones the clean-up empties.
RecommendationLines ==
    << <<"1", ".", " ", "U","s","e">>,
       <<"-", " ", "M","i","x">>,
       <<"U+2022", "A","d","d">>,
       <<"#", " ", "T","i","p","s">>,
       <<>>,
       <<" ", " ">>,
       <<"-">>,
       <<"1", ".">>,
       <<"1","0",".", " ", "G","o">>,
       <<"L","o","n","g","e","r">>,
       <<"2", ".", " ", "-", " ", "X">>,
       <<"1","2","3",".", "Z">>,
       <<"-","-","y">>,
       <<" ", "#", "h">>,
       <<"3", ".", "#", "k">>,
       <<"U+00B2", ".", "q">>,
       <<"a", ".", "b", " ", "\r">> >>

InitRecommendations ==
    /\ op = "generate_recommendations"
    /\ args \in [password : SamplePasswords]
    /\ api_key \in ApiKeys
    /\ service \in IF api_key = "" THEN {NoService}
                   ELSE services(RecommendationLines, MaxRecommendationLines)

InitParse ==
    /\ op = "parse_recommendations"
    /\ args \in [recommendations_text : texts(RecommendationLines, MaxRecommendationLines)]
    /\ service = NoService
    /\ api_key = ""

Init ==
    /\ pc = "start"
    /\ frame = NoFrame
    /\ ret = NoRet
    /\ \/ InitValidate
       \/ InitGenerate
       \/ InitSuggestions
       \/ InitRecommendations
       \/ InitParse

---------------------------------------------------------------------------
(* Operations.                                                             *)

ValidatePassword ==
    /\ pc = "start"
    /\ op = "validate_password_meets_security_rules"
    /\ ret' = validate_password_meets_security_rules(
                  <<args.password, args.min_length, args.require_uppercase,
                    args.require_lowercase, args.require_numbers,
                    args.require_special>>, <<>>)
    /\ pc' = "done"
    /\ UNCHANGED <<api_key, op, args, service, frame>>

\* One construction pass of generate_strong_password.  A pass whose
\* self-check fails calls the function again with the clamped length.
GenerateStrongPassword ==
    /\ pc = "start"
    /\ op = "generate_strong_password"
    /\ \E password \in construct_password(clamp(args.length), args.use_special,
                                          args.use_numbers) :
         LET out == finish_pass(password, args.use_special, args.use_numbers)
         IN  /\ frame' = [passes |-> frame.passes + 1,
                          length |-> clamp(args.length),
                          password |-> password,
                          check |-> self_check(password, args.use_special,
                                               args.use_numbers)]
             /\ IF out.kind = "retry"
                THEN /\ pc' = "start"
                     /\ args' = [args EXCEPT !.length = clamp(args.length)]
                     /\ ret' = ret
                ELSE /\ pc' = "done"
                     /\ args' = args
                     /\ ret' = out
    /\ UNCHANGED <<api_key, op, service>>

GenerateAiPasswordSuggestions ==
    /\ pc = "start"
    /\ op = "generate_ai_password_suggestions"
    /\ ret' \in generate_ai_password_suggestions(api_key, args.count,
                                                 args.length, service)
    /\ pc' = "done"
    /\ UNCHANGED <<api_key, op, args, service, frame>>

GenerateRecommendations ==
    /\ pc = "start"
    /\ op = "generate_recommendations"
    /\ ret' = generate_recommendations(api_key, args.password, service)
    /\ pc' = "done"
    /\ UNCHANGED <<api_key, op, args, service, frame>>

ParseRecommendations ==
    /\ pc = "start"
    /\ op = "parse_recommendations"
    /\ ret' = Returns(parse_recommendations(args.recommendations_text))
    /\ pc' = "done"
    /\ UNCHANGED <<api_key, op, args, service, frame>>

Next ==
    \/ ValidatePassword
    \/ GenerateStrongPassword
    \/ GenerateAiPasswordSuggestions
    \/ GenerateRecommendations
    \/ ParseRecommendations

Spec == Init /\ [][Next]_vars

---------------------------------------------------------------------------
(* The claims.                                                             *)

Done(f) == pc = "done" /\ op = f
ValidateDone == Done("validate_password_meets_security_rules")
GenerateDone == Done("generate_strong_password")
SuggestionsDone == Done("generate_ai_password_suggestions")
RecommendationsDone == Done("generate_recommendations")
ParseDone == Done("parse_recommendations")

Chars(s) == Range(s)
Errors == Range(ret.value[2])

\* What the policy of a validate call asks of its candidate, rule by rule.
LengthOk == Len(args.password) >= args.min_length
UpperOk == args.require_uppercase => \E c \in Chars(args.password) : isupper(c)
LowerOk == args.require_lowercase => \E c \in Chars(args.password) : islower(c)
DigitOk == args.require_numbers => \E c \in Chars(args.password) : isdigit(c)
SpecialOk ==
    args.require_special => Chars(args.password) \cap Range(special_chars) # {}

\* C1: for every candidate (the empty one included) and every policy,
\* validate_password_meets_security_rules returns is_valid = true if and
\* only if the candidate is at least min_length long and holds a character
\* of every class whose flag is set; and is_valid is true exactly when the
\* returned error list is empty.
C1_ValidIffRulesHold ==
    ValidateDone =>
        /\ ret.kind = "return"
        /\ ret.value[1] = (LengthOk /\ UpperOk /\ LowerOk /\ DigitOk /\ SpecialOk)
        /\ ret.value[1] = (ret.value[2] = <<>>)

\* A candidate accepted under a policy that requires all four classes.
C1_Witness ==
    /\ ValidateDone
    /\ args.require_uppercase /\ args.require_lowercase
    /\ args.require_numbers /\ args.require_special
    /\ args.min_length = DefaultMinLength
    /\ ret.value[1]

\* The messages of the rules that fail, in the order length, uppercase,
\* lowercase, digit, special.
FailedRules ==
    LET rules == << [failed |-> ~LengthOk, msg |-> MsgLength(args.min_length)],
                    [failed |-> ~UpperOk, msg |-> MsgUpper],
                    [failed |-> ~LowerOk, msg |-> MsgLower],
                    [failed |-> ~DigitOk, msg |-> MsgDigit],
                    [failed |-> ~SpecialOk, msg |-> MsgSpecial] >>
        failed == SelectSeq(rules, LAMBDA r : r.failed)
    IN  [i \in 1..Len(failed) |-> failed[i].msg]

\* C2: the validator evaluates all five checks without short-circuiting:
\* the error list holds exactly one entry per failed applicable rule, none
\* for a passed or disabled rule, always in the order length, uppercase,
\* lowercase, digit, special.
C2_AllViolationsInOrder ==
    ValidateDone => ret.value[2] = FailedRules

\* "abc" under the default policy: length, uppercase, digit, special.
C2_Witness ==
    /\ ValidateDone
    /\ args.password = <<"a", "b", "c">>
    /\ args.min_length = DefaultMinLength
    /\ args.require_uppercase /\ args.require_lowercase
    /\ args.require_numbers /\ args.require_special
    /\ ret.value[2] = <<MsgLength(DefaultMinLength), MsgUpper, MsgDigit, MsgSpecial>>

\* C3: for every length and flag combination generate_strong_password
\* returns a string of length clamp(length, 12, 32) that passes the
\* validator under {min_length: the clamped length, uppercase and lowercase
\* required, digit required iff use_numbers, special iff use_special}.
C3_GeneratedPasswordMeetsPolicy ==
    GenerateDone =>
        /\ ret.kind = "return"
        /\ Len(ret.value) = clamp(args.length)
        /\ validate_body(ret.value, clamp(args.length), TRUE, TRUE,
                         args.use_numbers, args.use_special)[1]

\* C4: for every count >= 0 and every length
\* generate_ai_password_suggestions returns a list of exactly count
\* passwords and raises no error, whatever the service does.
C4_ExactlyCountSuggestions ==
    SuggestionsDone => ret.kind = "return" /\ Len(ret.value) = args.count

\* The service's answer is unusable: the call raised, the answer holds no
\* choice, or its content is None.
ServiceFailed ==
    \/ service.kind = "raise"
    \/ service.kind = "response" /\ service.choices = <<>>
    \/ service.kind = "response" /\ service.choices # <<>>
         /\ service.choices[1].is_none

\* C5: generate_recommendations never propagates an error to its caller;
\* with the API key unset, or when the service call or the parsing of its
\* response raises, it returns exactly the fixed list of 7 recommendations.
C5_RecommendationsFallBack ==
    RecommendationsDone =>
        /\ ret.kind = "return"
        /\ (api_key = "" \/ ServiceFailed) =>
               /\ ret.value = get_default_recommendations
               /\ Len(ret.value) = 7

\* The key is set and the service call raises: the caller gets the list.
C5_Witness ==
    /\ RecommendationsDone
    /\ api_key # ""
    /\ service.kind = "raise"
    /\ ret = Returns(get_default_recommendations)

\* A service line after the clean-up of numbering and bullets.
CleanedLine(raw) ==
    IF strip(raw) = <<>> THEN <<>>
    ELSE remove_bullet(remove_numbering(strip(raw)))

ServiceText == service.choices[1].text
ServiceLines == Range(split(ServiceText, "\n"))

\* The two conditions of acceptance for a requested length.
Acceptable(line, length) ==
    /\ Len(line) >= length - 1
    /\ Chars(line) \cap (Range(ascii_uppercase) \cup UpperNonAscii) # {}
    /\ Chars(line) \cap (Range(ascii_lowercase) \cup LowerNonAscii) # {}
    /\ Chars(line) \cap (Range(digits) \cup DigitNonAscii) # {}
    /\ Chars(line) \cap Range(special_chars) # {}
    /\ Len(line) <= length + 2

\* C6: when the service returns usable output, no service-provided line
\* (after the clean-up) that fails the validator with min_length =
\* length - 1 and all four classes required, or that is longer than
\* length + 2, appears in the list generate_ai_password_suggestions returns.
C6_OnlyAcceptableLinesReturned ==
    (SuggestionsDone /\ ret.kind = "return" /\ api_key # "" /\ ~ServiceFailed) =>
        \A raw \in ServiceLines :
            ~Acceptable(CleanedLine(raw), args.length) =>
                CleanedLine(raw) \notin Range(ret.value)

\* The service answered with a line that is kept and a line that is valid
\* but too long, and the call returned the kept one.
C6_Witness ==
    /\ SuggestionsDone /\ ret.kind = "return" /\ api_key # "" /\ ~ServiceFailed
    /\ args.count >= 1
    /\ Len(ret.value) = args.count
    /\ \E raw \in ServiceLines :
         /\ Len(CleanedLine(raw)) > args.length + 2
         /\ validate_body(CleanedLine(raw), args.length - 1, TRUE, TRUE, TRUE, TRUE)[1]
    /\ \E raw \in ServiceLines : CleanedLine(raw) = ret.value[1]

\* The response text parse_recommendations was given, directly or through
\* generate_recommendations.
ParsedText ==
    IF op = "parse_recommendations" THEN args.recommendations_text
    ELSE ServiceText

ParseRan ==
    \/ ParseDone
    \/ RecommendationsDone /\ api_key # "" /\ ~ServiceFailed

\* A line contributes an item unless it is blank, starts with '#', or is
\* empty after its numbering and bullet are stripped.
Contributes(raw) ==
    /\ strip(raw) # <<>>
    /\ strip(raw)[1] # "#"
    /\ CleanedLine(raw) # <<>>

\* The items of the contributing lines, in the order of the lines.
ItemsInOrder(text) ==
    LET lines == split(text, "\n")
        kept == SelectSeq(lines, Contributes)
    IN  [i \in 1..Len(kept) |-> CleanedLine(kept[i])]

\* C7: for every response text parse_recommendations (and hence
\* generate_recommendations) returns at most 7 strings, each non-empty, in
\* the order of the lines they came from; blank lines, lines starting with
\* '#' and lines the clean-up empties contribute no item.
C7_AtMostSevenInOrder ==
    ParseRan =>
        /\ ret.kind = "return"
        /\ Len(ret.value) <= 7
        /\ \A i \in DOMAIN ret.value : ret.value[i] # <<>>
        /\ LET items == ItemsInOrder(ParsedText)
           IN  ret.value = SubSeq(items, 1, IF Len(items) < 7 THEN Len(items) ELSE 7)

\* A text with more than 7 contributing lines and a line that contributes
\* nothing: 7 items come back.
C7_Witness ==
    /\ ParseRan
    /\ Len(ItemsInOrder(ParsedText)) > 7
    /\ \E raw \in Range(split(ParsedText, "\n")) : ~Contributes(raw)
    /\ Len(ret.value) = 7

AsciiUpper == Range(ascii_uppercase)
AsciiLower == Range(ascii_lowercase)
AsciiDigit == Range(digits)

\* C8 as stated: the uppercase, lowercase and digit checks are satisfied
\* only by ASCII A-Z, a-z and 0-9, and the special check only by members
\* of the fixed charset: a candidate without such a character receives the
\* corresponding violation.
C8_AsciiClassesOnly ==
    ValidateDone =>
        /\ (args.require_uppercase /\ Chars(args.password) \cap AsciiUpper = {})
               => MsgUpper \in Errors
        /\ (args.require_lowercase /\ Chars(args.password) \cap AsciiLower = {})
               => MsgLower \in Errors
        /\ (args.require_numbers /\ Chars(args.password) \cap AsciiDigit = {})
               => MsgDigit \in Errors
        /\ (args.require_special /\ Chars(args.password) \cap Range(special_chars) = {})
               => MsgSpecial \in Errors

\* C8 amended: the special check is satisfied only by exact members of the
\* fixed charset (a space or a euro sign still receives the violation); the
\* uppercase, lowercase and digit checks are str.isupper, str.islower and
\* str.isdigit, satisfied by A-Z, a-z, 0-9 and also by the non-ASCII
\* characters of the class, so a candidate whose only uppercase letter,
\* lowercase letter or digit is non-ASCII receives no such violation.
C8_ExactSpecialUnicodeClasses ==
    ValidateDone =>
        /\ (args.require_special /\ Chars(args.password) \cap Range(special_chars) = {})
               => MsgSpecial \in Errors
        /\ args.require_uppercase =>
               (MsgUpper \in Errors
                    <=> Chars(args.password) \cap (AsciiUpper \cup UpperNonAscii) = {})
        /\ args.require_lowercase =>
               (MsgLower \in Errors
                    <=> Chars(args.password) \cap (AsciiLower \cup LowerNonAscii) = {})
        /\ args.require_numbers =>
               (MsgDigit \in Errors
                    <=> Chars(args.password) \cap (AsciiDigit \cup DigitNonAscii) = {})

\* A candidate whose only uppercase letter is non-ASCII and whose only
\* symbol is the euro sign: no uppercase violation, a special violation.
C8_Witness ==
    /\ ValidateDone
    /\ args.require_uppercase /\ args.require_special
    /\ Chars(args.password) \cap AsciiUpper = {}
    /\ "U+00C9" \in Chars(args.password)
    /\ "U+20AC" \in Chars(args.password)
    /\ MsgUpper \notin Errors
    /\ MsgSpecial \in Errors

\* C9: the self-check inside generate_strong_password is a well-formed
\* validator invocation whose result equals that of the validator under
\* {min_length: the clamped length, uppercase and lowercase required, digit
\* required iff use_numbers, special required iff use_special}.
C9_SelfCheckIsValidatorCall ==
    (op = "generate_strong_password" /\ frame.passes >= 1) =>
        /\ frame.check.kind = "return"
        /\ frame.check.value =
               validate_body(frame.password, frame.length, TRUE, TRUE,
                             args.use_numbers, args.use_special)

\* C10: every call of generate_strong_password returns a string and has no
\* error outcome: the constructed buffer always passes the self-check, the
\* retry branch is never taken and the call ends after one pass.
C10_ReturnsAfterOnePass ==
    /\ (op = "generate_strong_password" /\ frame.passes >= 1) =>
           pc = "done" /\ frame.passes = 1
    /\ GenerateDone => ret.kind # "raise"

=============================================================================
